---- MODULE Spec2Model ----
(***************************************************************************)
(* Model of render_mcp_debug_agent/render_mcp_server.py: a Flask service   *)
(* with four routes (/logs, /debug, /health, /ready), an allow-list access *)
(* guard, one outbound call to the Render API and a keyword diagnoser.     *)
(*                                                                         *)
(* Python str values are TLA+ strings; TLC evaluates Len, Head, Tail,      *)
(* SubSeq and \o on them.  Two characters of the source's literals cannot  *)
(* be written in a TLA+ string: the em dash of the diagnostic messages is  *)
(* written "-" and the backquotes of one fix message are written "'".      *)
(* Neither occurs in any pattern the code searches for.                    *)
(***************************************************************************)
EXTENDS Integers, Sequences, FiniteSets, TLC

VARIABLES
    RENDER_API_TOKEN,   \* module global, line 7
    RENDER_SERVICE_ID,  \* module global, line 8
    ALLOWED_KEYS,       \* module global, line 9
    request,            \* the request being handled
    pc,                 \* "idle" | "fetching" (inside requests.get) | "done"
                        \* ("done": the handler has returned its response)
    guard,              \* result of simple_auth_ok for this request
    steps,              \* components invoked for this request, in order
    raised,             \* exception raised while handling this request
    upstream_calls,     \* upstream GETs issued for this request
    build_output,       \* local of debug_with_ai: the value it analyses
    r,                  \* local of get_build_logs: what requests.get gave
    response            \* the HTTP response of this request

vars == <<RENDER_API_TOKEN, RENDER_SERVICE_ID, ALLOWED_KEYS, request, pc,
          guard, steps, raised, upstream_calls, build_output, r, response>>

config == <<RENDER_API_TOKEN, RENDER_SERVICE_ID, ALLOWED_KEYS>>

----------------------------------------------------------------------------
(* Bounds *)

\* a log text is the concatenation of at most MaxFrags fragments
MaxFrags == 2
\* longest ALLOWED_KEYS value enumerated by the access-guard specification
MaxAllowedLen == 3
\* longest X-API-KEY value enumerated by the access-guard specification
MaxKeyLen == 2

----------------------------------------------------------------------------
(* Python str methods *)

Range(f) == {f[i] : i \in DOMAIN f}

UpperToLower ==
    ("A" :> "a") @@ ("B" :> "b") @@ ("C" :> "c") @@ ("D" :> "d") @@
    ("E" :> "e") @@ ("F" :> "f") @@ ("G" :> "g") @@ ("H" :> "h") @@
    ("I" :> "i") @@ ("J" :> "j") @@ ("K" :> "k") @@ ("L" :> "l") @@
    ("M" :> "m") @@ ("N" :> "n") @@ ("O" :> "o") @@ ("P" :> "p") @@
    ("Q" :> "q") @@ ("R" :> "r") @@ ("S" :> "s") @@ ("T" :> "t") @@
    ("U" :> "u") @@ ("V" :> "v") @@ ("W" :> "w") @@ ("X" :> "x") @@
    ("Y" :> "y") @@ ("Z" :> "z")

LowerChar(c) == IF c \in DOMAIN UpperToLower THEN UpperToLower[c] ELSE c

\* str.lower(): every character replaced by its lower-case form (computed
\* by halving, which keeps the evaluation shallow on long texts)
RECURSIVE lower(_)
lower(s) ==
    IF s = "" THEN ""
    ELSE IF Len(s) = 1 THEN LowerChar(s)
    ELSE LET m == Len(s) \div 2
         IN lower(SubSeq(s, 1, m)) \o lower(SubSeq(s, m + 1, Len(s)))

\* the `in` operator on two str values
Contains(pat, s) ==
    \E i \in 1..(Len(s) - Len(pat) + 1) : SubSeq(s, i, i + Len(pat) - 1) = pat

IsSpace(c) == c = " "

RECURSIVE lstrip(_)
lstrip(s) == IF s # "" /\ IsSpace(Head(s)) THEN lstrip(Tail(s)) ELSE s

RECURSIVE rstrip(_)
rstrip(s) ==
    IF s # "" /\ IsSpace(SubSeq(s, Len(s), Len(s)))
    THEN rstrip(SubSeq(s, 1, Len(s) - 1))
    ELSE s

\* str.strip()
strip(s) == rstrip(lstrip(s))

\* str.split(","): the sequence of the fields between the commas
RECURSIVE split_from(_, _)
split_from(s, cur) ==
    IF s = "" THEN <<cur>>
    ELSE IF Head(s) = "," THEN <<cur>> \o split_from(Tail(s), "")
    ELSE split_from(Tail(s), cur \o Head(s))

split(s) == split_from(s, "")

----------------------------------------------------------------------------
(* Environment and requests *)

\* an environment variable is unset or set to a string
Unset == [set |-> FALSE, value |-> ""]
EnvSet(v) == [set |-> TRUE, value |-> v]

\* os.getenv(name, default)
getenv(var, default) == IF var.set THEN var.value ELSE default

\* a request header: absent, or present with a value
NoKey == [has_key |-> FALSE, key |-> ""]
Key(k) == [has_key |-> TRUE, key |-> k]

\* req.headers.get("X-API-KEY", default)
headers_get(headers, default) ==
    IF headers.has_key THEN headers.key ELSE default

\* JSON values: t is the type, n the number / truth value / number of
\* elements or keys, s the text of a string
JNull == [t |-> "null", n |-> 0, s |-> ""]
JBool(b) == [t |-> "bool", n |-> IF b THEN 1 ELSE 0, s |-> ""]
JNum(k) == [t |-> "num", n |-> k, s |-> ""]
JStr(x) == [t |-> "str", n |-> 0, s |-> x]
JList(k) == [t |-> "list", n |-> k, s |-> ""]
JObj(k) == [t |-> "obj", n |-> k, s |-> ""]

\* Python truth value of a decoded JSON value
truthy(v) ==
    CASE v.t = "null" -> FALSE
      [] v.t = "bool" -> v.n = 1
      [] v.t = "num" -> v.n # 0
      [] v.t = "str" -> v.s # ""
      [] v.t = "list" -> v.n > 0
      [] v.t = "obj" -> v.n > 0

----------------------------------------------------------------------------
(* Responses *)

EmptyResponse ==
    [code |-> 0, keys |-> {}, status |-> "", error |-> "", logs |-> "",
     diagnostics |-> <<>>, suggested_fixes |-> <<>>, ready |-> FALSE]

\* jsonify({"status": "error", "error": "unauthorized"}), 401
Unauthorized ==
    [EmptyResponse EXCEPT !.code = 401, !.keys = {"status", "error"},
                          !.status = "error", !.error = "unauthorized"]

\* jsonify({"status": "error", "error": str(e), "trace": ...}), 500
error_response(msg) ==
    [EmptyResponse EXCEPT !.code = 500, !.keys = {"status", "error", "trace"},
                          !.status = "error", !.error = msg]

\* jsonify({"status": "ok", "logs": logs})
logs_response(text) ==
    [EmptyResponse EXCEPT !.code = 200, !.keys = {"status", "logs"},
                          !.status = "ok", !.logs = text]

\* jsonify({"status": "ok", "diagnostics": ..., "suggested_fixes": ...,
\*          "note": ...})
debug_response(diagnostics, suggested_fixes) ==
    [EmptyResponse EXCEPT
        !.code = 200,
        !.keys = {"status", "diagnostics", "suggested_fixes", "note"},
        !.status = "ok",
        !.diagnostics = diagnostics,
        !.suggested_fixes = suggested_fixes]

\* jsonify({"status":"ok","service":"render-mcp-debug-agent"})
health_response ==
    [EmptyResponse EXCEPT !.code = 200, !.keys = {"status", "service"},
                          !.status = "ok"]

\* jsonify({"ready": b})
ready_response(b) ==
    [EmptyResponse EXCEPT !.code = 200, !.keys = {"ready"}, !.ready = b]

\* str(e) of the exceptions the handlers can meet
ConfigMessage ==
    "RENDER_API_TOKEN and RENDER_SERVICE_ID must be set as environment variables."

ExcMessage(exc) ==
    CASE exc = "RuntimeError" -> ConfigMessage
      [] exc = "BadRequest" -> "400 Bad Request"
      [] exc = "AttributeError" -> "object has no attribute"
      [] exc = "Timeout" -> "Read timed out."
      [] exc = "ConnectionError" -> "Max retries exceeded with url"
      [] exc = "HTTPError" -> "Error for url"

----------------------------------------------------------------------------
(* Access Guard *)

\* [k.strip() for k in ALLOWED_KEYS.split(",") if k.strip()]
allowed_list(keys) ==
    LET parts == split(keys)
        stripped == [i \in 1..Len(parts) |-> strip(parts[i])]
    IN SelectSeq(stripped, LAMBDA k : k # "")

simple_auth_ok_trim(req) ==
    IF ALLOWED_KEYS = "" THEN TRUE
    ELSE LET key == strip(headers_get(req.headers, ""))
             allowed == allowed_list(ALLOWED_KEYS)
         IN key \in Range(allowed)

simple_auth_ok(req) ==
    IF ALLOWED_KEYS = "" THEN TRUE
    ELSE LET key == headers_get(req.headers, "")
             allowed == allowed_list(ALLOWED_KEYS)
         IN key \in Range(allowed)

----------------------------------------------------------------------------
(* Heuristic Diagnoser *)

MsgModule ==
    "ModuleNotFoundError detected - missing Python package. Add the missing package to requirements.txt and redeploy."
MsgSyntax ==
    "SyntaxError detected - check indentation, parentheses or invalid syntax in the mentioned file and line number."
MsgPip ==
    "pip install failure - try pinning dependency versions or increasing build resources. Check wheels vs source build."
MsgPermission ==
    "Permission denied - check file permissions and user running the build step."
MsgMemory ==
    "Out of memory - build is exceeding memory limits; try smaller build or increase plan."
MsgFallback ==
    "No obvious pattern detected. Consider sharing a larger snippet of the build log or running the build locally for step-by-step debugging."

\* `if cond: diagnostics.append(msg)`
append_if(diagnostics, cond, msg) ==
    IF cond THEN Append(diagnostics, msg) ELSE diagnostics

diagnose_first_match(text) ==
    LET low == lower(text)
    IN IF Contains("module not founderror", low)
          \/ Contains("modulenotfounderror", low) THEN <<MsgModule>>
       ELSE IF Contains("syntaxerror", low) THEN <<MsgSyntax>>
       ELSE IF Contains("pip install", low)
               /\ (Contains("failed", low) \/ Contains("error", low))
            THEN <<MsgPip>>
       ELSE IF Contains("permission denied", low) THEN <<MsgPermission>>
       ELSE IF Contains("out of memory", low) \/ Contains("oom", low)
            THEN <<MsgMemory>>
       ELSE <<MsgFallback>>

diagnose_always_fallback(text) ==
    LET low == lower(text)
        d1 == append_if(<<>>, Contains("module not founderror", low)
                              \/ Contains("modulenotfounderror", low),
                        MsgModule)
        d2 == append_if(d1, Contains("syntaxerror", low), MsgSyntax)
        d3 == append_if(d2, Contains("pip install", low)
                            /\ (Contains("failed", low)
                                \/ Contains("error", low)),
                        MsgPip)
        d4 == append_if(d3, Contains("permission denied", low), MsgPermission)
        d5 == append_if(d4, Contains("out of memory", low)
                            \/ Contains("oom", low),
                        MsgMemory)
    IN Append(d5, MsgFallback)

\* lines 54-67
diagnose(text) ==
    LET low == lower(text)
        d1 == append_if(<<>>, Contains("module not founderror", low)
                              \/ Contains("modulenotfounderror", low),
                        MsgModule)
        d2 == append_if(d1, Contains("syntaxerror", low), MsgSyntax)
        d3 == append_if(d2, Contains("pip install", low)
                            /\ (Contains("failed", low)
                                \/ Contains("error", low)),
                        MsgPip)
        d4 == append_if(d3, Contains("permission denied", low), MsgPermission)
        d5 == append_if(d4, Contains("out of memory", low)
                            \/ Contains("oom", low),
                        MsgMemory)
    IN append_if(d5, d5 = <<>>, MsgFallback)

----------------------------------------------------------------------------
(* Fix Mapper *)

FixPackage ==
    "Add the missing package to requirements.txt; ensure correct package name/version; then redeploy."
FixSyntax ==
    "Open the file and inspect the indicated line number for syntax issues; run 'python -m pyflakes <file>' or 'python -m py_compile <file>' locally."
FixPin ==
    "Pin dependency versions in requirements.txt, try 'pip wheel' for heavy packages, or add system dependencies in your Render build script."
FixMemory ==
    "Use smaller build, split heavy dependencies, or upgrade Render plan. Add swap in build stage if possible."
FixGeneric ==
    "Inspect logs, confirm environment variables, and retry the build."

suggested_fix_no_lower(d) ==
    IF Contains("missing python package", d)
       \/ Contains("modulenotfounderror", d) THEN FixPackage
    ELSE IF Contains("syntaxerror", d) THEN FixSyntax
    ELSE IF Contains("pip install failure", d) THEN FixPin
    ELSE IF Contains("out of memory", d) THEN FixMemory
    ELSE FixGeneric

\* the if/elif chain of lines 72-81, for one diagnostic d
suggested_fix(d) ==
    LET low == lower(d)
    IN IF Contains("missing python package", low)
          \/ Contains("modulenotfounderror", low) THEN FixPackage
       ELSE IF Contains("syntaxerror", low) THEN FixSyntax
       ELSE IF Contains("pip install failure", low) THEN FixPin
       ELSE IF Contains("out of memory", low) THEN FixMemory
       ELSE FixGeneric

fix_mapper_first_only(diagnostics) ==
    IF diagnostics = <<>> THEN <<>> ELSE <<suggested_fix(diagnostics[1])>>

\* the loop of lines 70-81
RECURSIVE fix_loop(_, _)
fix_loop(diagnostics, suggested_fixes) ==
    IF diagnostics = <<>> THEN suggested_fixes
    ELSE fix_loop(Tail(diagnostics),
                  Append(suggested_fixes, suggested_fix(Head(diagnostics))))

fix_mapper(diagnostics) == fix_loop(diagnostics, <<>>)

----------------------------------------------------------------------------
(* Log Fetcher *)

\* `not RENDER_API_TOKEN or not RENDER_SERVICE_ID` (line 12)
config_missing == RENDER_API_TOKEN = "" \/ RENDER_SERVICE_ID = ""

\* what requests.get(url, headers=headers, timeout=30) can come back with:
\* an exception, or a final response with a status code and a body
Reply(exc, status_code, text) ==
    [exc |-> exc, status_code |-> status_code, text |-> text]

raise_for_status_5xx_only(reply) ==
    500 <= reply.status_code /\ reply.status_code < 600

\* r.raise_for_status() raises HTTPError for a 4xx or 5xx status code
raise_for_status(reply) ==
    400 <= reply.status_code /\ reply.status_code < 600

\* lines 16-18: the exception get_build_logs ends with, "none" when it
\* returns r.text
fetch_exception(reply) ==
    IF reply.exc # "none" THEN reply.exc
    ELSE IF raise_for_status(reply) THEN "HTTPError"
    ELSE "none"

----------------------------------------------------------------------------
(* Handlers.  A handler run is described by the values it leaves in the     *)
(* request-local variables.                                                *)

\* no reply yet: requests.get has not returned
NoReply == Reply("pending", 0, "")

Outcome(p, g, st, exc, calls, resp) ==
    [pc |-> p, guard |-> g, steps |-> st, raised |-> exc,
     upstream_calls |-> calls, response |-> resp,
     build_output |-> JNull, r |-> NoReply]

failed_without_status(g, st, exc, calls) ==
    Outcome("done", g, st, exc, calls,
            [error_response(ExcMessage(exc)) EXCEPT !.code = 200])

\* `except Exception as e` of lines 34-35 and 90-91
failed(g, st, exc, calls) ==
    Outcome("done", g, st, exc, calls, error_response(ExcMessage(exc)))

\* the call of get_build_logs() up to the moment requests.get is entered
call_get_build_logs(st) ==
    IF config_missing
    THEN failed("allowed", Append(st, "get_build_logs"), "RuntimeError", 0)
    ELSE Outcome("fetching", "allowed",
                 st \o <<"get_build_logs", "requests.get">>, "none", 1,
                 EmptyResponse)

\* lines 54-89 on the value of build_output: a decoded JSON value or r.text
analyse(value, st, calls) ==
    IF value.t # "str"
    THEN [failed("allowed", st, "AttributeError", calls)
            EXCEPT !.build_output = value]
    ELSE LET diagnostics == diagnose(value.s)
             suggested_fixes == fix_mapper(diagnostics)
         IN [Outcome("done", "allowed", st \o <<"diagnose", "fix_mapper">>,
                     "none", calls,
                     debug_response(diagnostics, suggested_fixes))
               EXCEPT !.build_output = value]

\* payload.get("logs", None)
payload_get(req, payload) ==
    IF payload.n > 0 /\ req.has_logs THEN req.logs ELSE JNull

needs_fetch_always(value) == TRUE

\* `if not build_output` (line 49)
needs_fetch(value) == ~truthy(value)

\* lines 47-89 of debug_with_ai, entered once the guard has allowed
debug_body(req) ==
    LET st == <<"simple_auth_ok">>
    IN IF ~req.parse_ok THEN failed("allowed", st, "BadRequest", 0)
       ELSE LET payload == IF truthy(req.json) THEN req.json ELSE JObj(0)
            IN IF payload.t # "obj"
               THEN failed("allowed", st, "AttributeError", 0)
               ELSE LET value == payload_get(req, payload)
                    IN IF needs_fetch(value)
                       THEN [call_get_build_logs(st)
                               EXCEPT !.build_output = value]
                       ELSE analyse(value, st, 0)

rejected == Outcome("done", "rejected", <<"simple_auth_ok">>, "none", 0,
                    Unauthorized)

debug_unguarded(req) ==
    [debug_body(req) EXCEPT
        !.guard = IF simple_auth_ok(req) THEN "allowed" ELSE "rejected"]

\* lines 43-91 up to the upstream call
debug_run(req) ==
    IF ~simple_auth_ok(req) THEN rejected ELSE debug_body(req)

\* lines 29-35 up to the upstream call
logs_run(req) ==
    IF ~simple_auth_ok(req) THEN rejected
    ELSE call_get_build_logs(<<"simple_auth_ok">>)

\* the rest of the handler once requests.get has come back with reply;
\* old is build_output as the handler left it before the call
resume(req, st, old, reply) ==
    LET exc == fetch_exception(reply)
        o == IF exc # "none"
             THEN [failed("allowed", st, exc, 1) EXCEPT !.build_output = old]
             ELSE IF req.route = "/logs"
             THEN Outcome("done", "allowed", st, "none", 1,
                          logs_response(reply.text))
             ELSE analyse(JStr(reply.text), st, 1)
    IN [o EXCEPT !.r = reply]

ready_value_either == RENDER_API_TOKEN # "" \/ RENDER_SERVICE_ID # ""

\* bool(RENDER_API_TOKEN and RENDER_SERVICE_ID)
ready_value == RENDER_API_TOKEN # "" /\ RENDER_SERVICE_ID # ""

----------------------------------------------------------------------------
(* Inputs *)

EmptyBody ==
    [parse_ok |-> TRUE, json |-> JNull, has_logs |-> FALSE, logs |-> JNull]

\* a body that is not JSON: request.json raises BadRequest
InvalidBody == [EmptyBody EXCEPT !.parse_ok = FALSE]

\* a body that decodes to the JSON value json, holding no "logs" key
Payload(json) == [EmptyBody EXCEPT !.json = json]

\* the body {"logs": v}
LogsBody(v) == [EmptyBody EXCEPT !.json = JObj(1), !.has_logs = TRUE,
                                 !.logs = v]

Req(route, headers, body) ==
    [route |-> route, headers |-> headers, parse_ok |-> body.parse_ok,
     json |-> body.json, has_logs |-> body.has_logs, logs |-> body.logs]

NoRequest == Req("", NoKey, EmptyBody)

Fragments ==
    {"ModuleNotFoundError", "MODULE NOT FOUNDERROR", "Module",
     "NotFoundError", "SyntaxError", "pip install", " FAILED",
     "Permission denied", "Out Of Memory", "zoom",
     "pip install error: syntaxerror, modulenotfounderror, permission denied, oom"}

RECURSIVE TextsUpTo(_)
TextsUpTo(n) ==
    IF n = 0 THEN {""}
    ELSE {""} \cup {f \o t : f \in Fragments, t \in TextsUpTo(n - 1)}

Texts == TextsUpTo(MaxFrags)

NonStrings ==
    {JNull, JBool(FALSE), JBool(TRUE), JNum(0), JNum(5), JList(0), JList(1),
     JObj(0), JObj(1)}

Bodies ==
    {InvalidBody}
    \cup {Payload(j) : j \in NonStrings \cup {JStr(""), JStr("x")}}
    \cup {LogsBody(v) : v \in NonStrings \cup {JStr(t) : t \in Texts}}

Headers == {NoKey, Key("a"), Key("c")}

StatusCodes == {200, 204, 304, 404, 500}

UpstreamTexts == {"", "SyntaxError: invalid syntax", "Killed: out of memory"}

Replies ==
    {Reply("Timeout", 0, ""), Reply("ConnectionError", 0, "")}
    \cup {Reply("none", c, t) : c \in StatusCodes, t \in UpstreamTexts}

RECURSIVE Strings(_, _)
Strings(alphabet, n) ==
    IF n = 0 THEN {""}
    ELSE {""} \cup {c \o t : c \in alphabet, t \in Strings(alphabet, n - 1)}

AuthAllowed ==
    {Unset} \cup {EnvSet(v) : v \in Strings({"a", "A", ",", " "}, MaxAllowedLen)}

AuthHeaders ==
    {NoKey} \cup {Key(k) : k \in Strings({"a", "A", " "}, MaxKeyLen)}

AuthBodies == {EmptyBody, LogsBody(JStr("SyntaxError"))}

AuthReplies == {Reply("Timeout", 0, ""), Reply("none", 200, "build ok")}

----------------------------------------------------------------------------
(* State machine *)

Idle ==
    /\ request = NoRequest
    /\ pc = "idle"
    /\ guard = "notrun"
    /\ steps = <<>>
    /\ raised = "none"
    /\ upstream_calls = 0
    /\ build_output = JNull
    /\ r = NoReply
    /\ response = EmptyResponse

\* lines 7-9: the globals are read from the environment at import
Init ==
    /\ RENDER_API_TOKEN \in {getenv(e, "") : e \in {Unset, EnvSet("tok")}}
    /\ RENDER_SERVICE_ID \in {getenv(e, "") : e \in {Unset, EnvSet("srv")}}
    /\ ALLOWED_KEYS \in {getenv(e, "") : e \in {Unset, EnvSet("a,b")}}
    /\ Idle

InitAuth ==
    /\ RENDER_API_TOKEN = getenv(EnvSet("tok"), "")
    /\ RENDER_SERVICE_ID = getenv(EnvSet("srv"), "")
    /\ ALLOWED_KEYS \in {getenv(e, "") : e \in AuthAllowed}
    /\ Idle

Leave(o) ==
    /\ pc' = o.pc
    /\ guard' = o.guard
    /\ steps' = o.steps
    /\ raised' = o.raised
    /\ upstream_calls' = o.upstream_calls
    /\ build_output' = o.build_output
    /\ r' = o.r
    /\ response' = o.response
    /\ UNCHANGED config

\* GET /logs
fetch_logs(headers) ==
    /\ pc = "idle"
    /\ request' = Req("/logs", headers, EmptyBody)
    /\ Leave(logs_run(request'))

\* POST /debug
debug_with_ai(headers, body) ==
    /\ pc = "idle"
    /\ request' = Req("/debug", headers, body)
    /\ Leave(debug_run(request'))

\* requests.get returns or raises, and the handler runs to its end
upstream_reply(reply) ==
    /\ pc = "fetching"
    /\ UNCHANGED request
    /\ Leave(resume(request, steps, build_output, reply))

\* GET /health
health(headers) ==
    /\ pc = "idle"
    /\ request' = Req("/health", headers, EmptyBody)
    /\ Leave(Outcome("done", "notrun", <<>>, "none", 0, health_response))

\* GET /ready
ready(headers) ==
    /\ pc = "idle"
    /\ request' = Req("/ready", headers, EmptyBody)
    /\ Leave(Outcome("done", "notrun", <<>>, "none", 0,
                     ready_response(ready_value)))

\* the response has been sent: nothing of the request outlives it
respond ==
    /\ pc = "done"
    /\ request' = NoRequest
    /\ Leave(Outcome("idle", "notrun", <<>>, "none", 0, EmptyResponse))

Next ==
    \/ \E h \in Headers : fetch_logs(h)
    \/ \E h \in Headers, b \in Bodies : debug_with_ai(h, b)
    \/ \E reply \in Replies : upstream_reply(reply)
    \/ \E h \in Headers : health(h)
    \/ \E h \in Headers : ready(h)
    \/ respond

Spec == Init /\ [][Next]_vars

NextAuth ==
    \/ \E h \in AuthHeaders : fetch_logs(h)
    \/ \E h \in AuthHeaders, b \in AuthBodies : debug_with_ai(h, b)
    \/ \E reply \in AuthReplies : upstream_reply(reply)
    \/ respond

SpecAuth == InitAuth /\ [][NextAuth]_vars

TypeOK ==
    /\ pc \in {"idle", "fetching", "done"}
    /\ guard \in {"notrun", "allowed", "rejected"}
    /\ upstream_calls \in 0..1

----------------------------------------------------------------------------
(* Properties *)

Guarded == request.route \in {"/logs", "/debug"}

DebugOk ==
    request.route = "/debug" /\ pc = "done" /\ response.code = 200

\* the number of times component c was invoked for this request
Count(c) == Cardinality({i \in DOMAIN steps : steps[i] = c})

\* C1 as stated: the guard allows every request when ALLOWED_KEYS is empty
\* or unset, and otherwise allows exactly when the X-API-KEY value with its
\* surrounding whitespace trimmed equals one entry of ALLOWED_KEYS split on
\* commas with each entry trimmed.
C1_TrimmedKeyMatches ==
    (Guarded /\ guard # "notrun") =>
        LET supplied == request.headers.has_key
            key == request.headers.key
            entries == {strip(e) : e \in Range(split(ALLOWED_KEYS))}
        IN (guard = "allowed")
               <=> \/ ALLOWED_KEYS = ""
                   \/ supplied /\ strip(key) \in entries

\* C1 amended: the guard allows every request when ALLOWED_KEYS is empty or
\* unset, and otherwise allows exactly when the X-API-KEY value as supplied
\* (not trimmed; an absent header counts as the empty string) is non-empty
\* and equals, case-sensitively, one trimmed entry of ALLOWED_KEYS split on
\* commas.
C1_ExactKeyMatches ==
    (Guarded /\ guard # "notrun") =>
        LET key == headers_get(request.headers, "")
        IN (guard = "allowed")
               <=> \/ ALLOWED_KEYS = ""
                   \/ /\ key # ""
                      /\ \E e \in Range(split(ALLOWED_KEYS)) : strip(e) = key

C1_Witness ==
    /\ Guarded
    /\ guard = "allowed"
    /\ Contains(" ", ALLOWED_KEYS)
    /\ Contains(",", ALLOWED_KEYS)
    /\ request.headers.has_key

\* C2: on /logs and /debug the guard runs first; a rejected request is
\* answered 401 {status: error, error: unauthorized} with no upstream call
\* and no diagnosis; an allowed request is never answered 401.
C2_GuardFirst ==
    Guarded =>
        /\ guard # "notrun"
        /\ steps[1] = "simple_auth_ok"
        /\ guard = "rejected" =>
              /\ pc = "done"
              /\ response.code = 401
              /\ response.keys = {"status", "error"}
              /\ response.status = "error"
              /\ response.error = "unauthorized"
              /\ upstream_calls = 0
              /\ Range(steps) = {"simple_auth_ok"}
              /\ response.diagnostics = <<>>
              /\ response.logs = ""
        /\ guard = "allowed" => response.code # 401

C2_Witness ==
    /\ request.route = "/debug"
    /\ guard = "rejected"
    /\ request.has_logs
    /\ truthy(request.logs)
    /\ RENDER_API_TOKEN # ""
    /\ RENDER_SERVICE_ID # ""
    /\ response.code = 401

RuleMsg == <<MsgModule, MsgSyntax, MsgPip, MsgPermission, MsgMemory>>

\* the predicate of rule k on the lower-cased text
RulePred(k, low) ==
    CASE k = 1 -> Contains("module not founderror", low)
                  \/ Contains("modulenotfounderror", low)
      [] k = 2 -> Contains("syntaxerror", low)
      [] k = 3 -> /\ Contains("pip install", low)
                  /\ Contains("failed", low) \/ Contains("error", low)
      [] k = 4 -> Contains("permission denied", low)
      [] k = 5 -> Contains("out of memory", low) \/ Contains("oom", low)

\* the upper- and lower-case forms of a lower-case character
Cases(c) == {c} \cup {u \in DOMAIN UpperToLower : UpperToLower[u] = c}

\* text contains pat (given in lower case) in some mix of letter cases
ContainsAnyCase(pat, text) ==
    \E i \in 1..(Len(text) - Len(pat) + 1) :
        \A j \in 1..Len(pat) :
            SubSeq(text, i + j - 1, i + j - 1) \in Cases(SubSeq(pat, j, j))

\* the position of a diagnostic in the order of the checks
Position(d) ==
    CHOOSE k \in 1..6 : (RuleMsg \o <<MsgFallback>>)[k] = d

\* C3: the diagnostics hold rule k's message exactly when rule k's
\* predicate holds of the lower-cased text, in rule order and without
\* repetition; a text containing ModuleNotFoundError in any letter case
\* yields the missing-package message.
C3_RulesIndependent ==
    DebugOk =>
        LET d == response.diagnostics
            low == lower(build_output.s)
        IN /\ \A k \in 1..5 :
                  (RuleMsg[k] \in Range(d)) <=> RulePred(k, low)
           /\ \A i, j \in DOMAIN d :
                  i < j => Position(d[i]) < Position(d[j])
           /\ ContainsAnyCase("modulenotfounderror", build_output.s)
                  => MsgModule \in Range(d)

C3_Witness ==
    /\ DebugOk
    /\ Contains("ModuleNotFoundError", build_output.s)
    /\ ~Contains("modulenotfounderror", build_output.s)
    /\ response.diagnostics = <<MsgModule, MsgPip>>

Triggers ==
    {"module not founderror", "modulenotfounderror", "syntaxerror",
     "pip install", "failed", "error", "permission denied", "out of memory",
     "oom"}

\* C4: the diagnostics are never empty; when no rule matches (in particular
\* when the text holds no trigger substring) they are exactly the fallback
\* message, and the fallback message never accompanies a rule message.
C4_FallbackAlone ==
    DebugOk =>
        LET d == response.diagnostics
            low == lower(build_output.s)
        IN /\ d # <<>>
           /\ (\A k \in 1..5 : ~RulePred(k, low)) => d = <<MsgFallback>>
           /\ (\A t \in Triggers : ~Contains(t, low)) => d = <<MsgFallback>>
           /\ MsgFallback \in Range(d) => d = <<MsgFallback>>

C4_Witness ==
    /\ DebugOk
    /\ response.diagnostics = <<MsgFallback>>
    /\ Contains("pip install", lower(build_output.s))

SuppliesLogs == request.parse_ok /\ request.has_logs

SuppliesText ==
    SuppliesLogs /\ request.logs.t = "str" /\ request.logs.s # ""

\* the first position of component c in steps
First(c) == CHOOSE i \in DOMAIN steps : steps[i] = c /\ \A j \in 1..(i - 1) : steps[j] # c

FetcherOnceBeforeDiagnosis ==
    /\ Count("get_build_logs") = 1
    /\ "diagnose" \in Range(steps) => First("get_build_logs") < First("diagnose")

\* C6 as stated: for an authorized POST /debug, whenever the body supplies
\* a logs value the diagnosis runs on it and the upstream API is not called;
\* the Log Fetcher is invoked (once, before diagnosis) only when the body
\* supplies no logs.
C6_SuppliedLogsNeverFetch ==
    (request.route = "/debug" /\ guard = "allowed") =>
        /\ SuppliesLogs =>
              /\ upstream_calls = 0
              /\ "get_build_logs" \notin Range(steps)
              /\ pc = "done" =>
                    /\ "diagnose" \in Range(steps)
                    /\ build_output = request.logs
        /\ "get_build_logs" \in Range(steps) =>
              ~SuppliesLogs /\ FetcherOnceBeforeDiagnosis

\* C6 amended: for an authorized POST /debug, whenever the body supplies a
\* non-empty string as logs the diagnosis runs on that text and the upstream
\* API is not called, even with RENDER_API_TOKEN and RENDER_SERVICE_ID
\* unset; the Log Fetcher is invoked (once, before diagnosis) only when the
\* body supplies no logs or a logs value that is falsy (empty string, null,
\* false, 0, empty list or object).
C6_NonEmptyTextNeverFetches ==
    (request.route = "/debug" /\ guard = "allowed") =>
        /\ SuppliesText =>
              /\ upstream_calls = 0
              /\ "get_build_logs" \notin Range(steps)
              /\ pc = "done" =>
                    /\ "diagnose" \in Range(steps)
                    /\ build_output = request.logs
                    /\ response.code = 200
        /\ "get_build_logs" \in Range(steps) =>
              /\ ~(SuppliesLogs /\ truthy(request.logs))
              /\ FetcherOnceBeforeDiagnosis

C6_Witness ==
    /\ DebugOk
    /\ SuppliesText
    /\ RENDER_API_TOKEN = ""
    /\ RENDER_SERVICE_ID = ""
    /\ upstream_calls = 0
    /\ response.diagnostics = <<MsgPermission>>

\* C7: each diagnostic of the Diagnoser gets the remediation of its own
\* rule: package fix, syntax-check command, dependency pinning, memory
\* advice, and the generic remediation for permission-denied and fallback.
C7_FixOfOwnRule ==
    DebugOk =>
        LET d == response.diagnostics
            f == response.suggested_fixes
        IN /\ DOMAIN f = DOMAIN d
           /\ \A i \in DOMAIN d :
                 /\ d[i] \in Range(RuleMsg) \cup {MsgFallback}
                 /\ d[i] = MsgModule => f[i] = FixPackage
                 /\ d[i] = MsgSyntax => f[i] = FixSyntax
                 /\ d[i] = MsgPip => f[i] = FixPin
                 /\ d[i] = MsgMemory => f[i] = FixMemory
                 /\ d[i] \in {MsgPermission, MsgFallback} => f[i] = FixGeneric

C7_Witness ==
    /\ DebugOk
    /\ response.diagnostics = RuleMsg
    /\ response.suggested_fixes =
           <<FixPackage, FixSyntax, FixPin, FixGeneric, FixMemory>>

FetcherInvoked == "get_build_logs" \in Range(steps)

ConfigEmpty == RENDER_API_TOKEN = "" \/ RENDER_SERVICE_ID = ""

FetchFailed ==
    /\ raised \in {"Timeout", "ConnectionError", "HTTPError"}
    /\ response.code = 500
    /\ response.logs = ""
    /\ response.diagnostics = <<>>

FetcherConfigAndSingleAttempt ==
    /\ upstream_calls = Count("requests.get")
    /\ upstream_calls <= 1
    /\ (FetcherInvoked /\ ConfigEmpty) =>
          /\ raised = "RuntimeError"
          /\ upstream_calls = 0
          /\ r = NoReply
    /\ (FetcherInvoked /\ ~ConfigEmpty) =>
          /\ Count("get_build_logs") = 1
          /\ upstream_calls = 1

\* C8 as stated: the Log Fetcher fails with a configuration error and no
\* network request when the token or the service id is empty; otherwise it
\* issues exactly one GET per invocation, so a request causes at most one
\* upstream request; a timeout, a connection failure or a non-2xx status
\* makes the fetch fail.
C8_Non2xxFails ==
    /\ FetcherConfigAndSingleAttempt
    /\ (r # NoReply
        /\ (r.exc # "none" \/ r.status_code \notin 200..299)) => FetchFailed

\* C8 amended: as C8, but it is a 4xx or 5xx status that makes the fetch
\* fail; a final response with any other status (2xx, or e.g. 304) is
\* returned as text.
C8_ErrorStatusFails ==
    /\ FetcherConfigAndSingleAttempt
    /\ (r # NoReply
        /\ (r.exc # "none" \/ r.status_code \in 400..599)) => FetchFailed
    /\ (r # NoReply /\ r.exc = "none" /\ r.status_code \notin 400..599) =>
          /\ raised \notin {"Timeout", "ConnectionError", "HTTPError"}
          /\ request.route = "/logs" => response = logs_response(r.text)
          /\ request.route = "/debug" => build_output = JStr(r.text)

C8_Witness ==
    /\ request.route = "/logs"
    /\ pc = "done"
    /\ r.exc = "none"
    /\ r.status_code = 404
    /\ raised = "HTTPError"
    /\ upstream_calls = 1

Ok200 ==
    /\ response.code = 200
    /\ response.status = "ok"
    /\ raised = "none"
    /\ request.route = "/logs" => response.keys = {"status", "logs"}
    /\ request.route = "/debug" =>
          /\ response.keys =
                 {"status", "diagnostics", "suggested_fixes", "note"}
          /\ response.diagnostics # <<>>
          /\ Len(response.suggested_fixes) = Len(response.diagnostics)

Error401 ==
    /\ response.code = 401
    /\ response.keys = {"status", "error"}
    /\ response.status = "error"
    /\ response.error = "unauthorized"

Error500 ==
    /\ response.code = 500
    /\ response.keys = {"status", "error", "trace"}
    /\ response.status = "error"
    /\ response.logs = ""
    /\ response.diagnostics = <<>>
    /\ response.suggested_fixes = <<>>

\* the truthy body values the handler cannot work on
MalformedBody ==
    /\ request.route = "/debug"
    /\ guard = "allowed"
    /\ \/ ~request.parse_ok
       \/ truthy(request.json) /\ request.json.t # "obj"
       \/ SuppliesLogs /\ truthy(request.logs) /\ request.logs.t # "str"

\* C9: a request on /logs or /debug ends as 200 ok with the whole result,
\* as 401, or as 500 {status: error, error, trace}; every failure raised
\* (configuration, transport, upstream HTTP, malformed body) ends as the
\* 500 envelope, which carries no logs, diagnostics or suggested_fixes.
C9_ThreeOutcomes ==
    (Guarded /\ pc = "done") =>
        /\ Ok200 \/ Error401 \/ Error500
        /\ raised # "none" <=> response.code = 500
        /\ response.code = 500 => Error500
        /\ (FetcherInvoked /\ ConfigEmpty) => Error500
        /\ (r # NoReply /\ (r.exc # "none" \/ r.status_code \in 400..599))
              => Error500
        /\ MalformedBody => Error500

C9_Witness ==
    /\ pc = "done"
    /\ MalformedBody
    /\ request.logs.t = "num"
    /\ raised = "AttributeError"
    /\ response.code = 500

\* C10: GET /ready answers 200 {ready: b} with b true exactly when both
\* RENDER_API_TOKEN and RENDER_SERVICE_ID are non-empty; it never fails,
\* runs no access guard and never calls upstream.
C10_ReadyIffConfigured ==
    request.route = "/ready" =>
        /\ pc = "done"
        /\ response.code = 200
        /\ response.keys = {"ready"}
        /\ response.ready <=> (RENDER_API_TOKEN # "" /\ RENDER_SERVICE_ID # "")
        /\ raised = "none"
        /\ guard = "notrun"
        /\ upstream_calls = 0
        /\ steps = <<>>

C10_Witness ==
    /\ request.route = "/ready"
    /\ ALLOWED_KEYS # ""
    /\ ~request.headers.has_key
    /\ response.ready
    /\ response.code = 200

====
